---- MODULE Spec2Model ----
(***************************************************************************)
(* Model of the lambda repository:                                         *)
(*   - src/api/filter.js : the serverless `handler`, the Express routes    *)
(*     POST /filter, POST /challenge and GET /;                            *)
(*   - app/page.tsx as excerpted in src/README.md : the invoice            *)
(*     collection, its two mutators, and the derived values                *)
(*     filteredInvoices, kpiData and chartData.                            *)
(* Two specifications share the module: SpecApi drives the HTTP handlers,  *)
(* Spec drives the dashboard page.                                         *)
(***************************************************************************)
EXTENDS Integers, Sequences, FiniteSets, TLC

VARIABLES
    request,          \* the HTTP request being answered: route and req.body
    exception,        \* what was thrown while the route callback ran, if anything
    response,         \* the HTTP response that request ended with
    invoices,         \* useState<Invoice[]>(mockInvoices)
    selectedPeriod,   \* useState("3Months")
    customStartDate,  \* useState<Date>()
    customEndDate,    \* useState<Date>()
    statusFilter,     \* useState("All")
    now,              \* the day `new Date()` reads
    nextId            \* source of fresh invoice ids

apiVars == <<request, exception, response>>
pageVars == <<invoices, selectedPeriod, customStartDate, customEndDate, statusFilter, now, nextId>>
vars == <<request, exception, response, invoices, selectedPeriod, customStartDate,
          customEndDate, statusFilter, now, nextId>>

(***************************************************************************)
(* Bounds                                                                  *)
(***************************************************************************)
MaxItems == 3        \* longest `items` array of a request
MaxInvoices == 2     \* longest invoice collection

(***************************************************************************)
(* JavaScript values of a request body.  A scalar is its type tag and its  *)
(* printed form, so that true, "true" and 1 are three different values.    *)
(***************************************************************************)
JSUndefined == [type |-> "undefined", repr |-> "undefined"]
JSNull == [type |-> "null", repr |-> "null"]
JSTrue == [type |-> "boolean", repr |-> "true"]
JSFalse == [type |-> "boolean", repr |-> "false"]
JSZero == [type |-> "number", repr |-> "0"]
JSOne == [type |-> "number", repr |-> "1"]
JSEmptyString == [type |-> "string", repr |-> ""]
JSStringTrue == [type |-> "string", repr |-> "true"]

\* values the `active` property of an item takes (JSUndefined: property absent)
ActiveValues == {JSTrue, JSFalse, JSStringTrue, JSOne, JSZero, JSUndefined}

ItemIds == {1, 2}

\* elements of an `items` array: objects {id, active}, null, or a number
ObjectElements == [type : {"object"}, id : ItemIds, active : ActiveValues]
NullElement == [type |-> "null", id |-> 0, active |-> JSUndefined]
NumberElement == [type |-> "number", id |-> 0, active |-> JSUndefined]
Elements == ObjectElements \cup {NullElement, NumberElement}

SeqsUpTo(S, n) == UNION {[1..k -> S] : k \in 0..n}

\* values of `items`: absent, null, scalars, a plain object, or an array
ScalarItems ==
    {[type |-> v.type, repr |-> v.repr, elems |-> <<>>] :
        v \in {JSUndefined, JSNull, JSTrue, JSFalse, JSZero, JSOne, JSEmptyString, JSStringTrue}}
ObjectItems == [type |-> "object", repr |-> "{}", elems |-> <<>>]
ArrayItems == {[type |-> "array", repr |-> "[]", elems |-> e] : e \in SeqsUpTo(Elements, MaxItems)}
ItemsValues == ScalarItems \cup {ObjectItems} \cup ArrayItems

\* req.body: undefined when no body was parsed, else an object that may carry `items`
UndefinedBody == [type |-> "undefined", items |-> [type |-> "undefined", repr |-> "undefined", elems |-> <<>>]]
Bodies == {UndefinedBody} \cup {[type |-> "object", items |-> v] : v \in ItemsValues}

\* JavaScript ToBoolean
Truthy(v) ==
    ~ \/ v.type \in {"undefined", "null"}
      \/ v.type = "boolean" /\ v.repr = "false"
      \/ v.type = "number" /\ v.repr = "0"
      \/ v.type = "string" /\ v.repr = ""

\* Array.isArray
IsArray(v) == v.type = "array"

\* a plausible slip: `item.active` instead of `item.active === true`
TruthyActive(v) == Truthy(v)

\* item.active === true
StrictEqualsTrue(v) == v.type = "boolean" /\ v.repr = "true"

\* outcome of evaluating an expression: a value or a thrown exception
Returned(v) == [thrown |-> FALSE, message |-> "", value |-> v]
Thrown(m) == [thrown |-> TRUE, message |-> m, value |-> <<>>]

NullActiveMessage == "Cannot read properties of null (reading 'active')"
NotAFunctionMessage == "(items || []).filter is not a function"
DestructureMessage == "Cannot destructure property 'items' of 'req.body' as it is undefined."
NotAnArrayMessage == "items must be an array"
HealthText == "Filter API is running"

\* elems.filter(item => item.active === true): the callback reads item.active
\* of every element in order, and reading a property of null throws
RECURSIVE FilterActive(_)
FilterActive(elems) ==
    IF elems = <<>> THEN Returned(<<>>)
    ELSE IF Head(elems).type = "null" THEN Thrown(NullActiveMessage)
    ELSE LET rest == FilterActive(Tail(elems))
         IN  IF rest.thrown THEN rest
             ELSE IF StrictEqualsTrue(Head(elems).active)
                  THEN Returned(<<Head(elems)>> \o rest.value)
                  ELSE rest

\* const { items } = req.body || {}
DestructureItemsOrEmpty(body) ==
    IF body.type = "undefined" THEN UndefinedBody.items ELSE body.items

\* (items || []).filter(item => item.active === true)
FilterItemsOrEmpty(items) ==
    IF ~Truthy(items) THEN Returned(<<>>)
    ELSE IF ~IsArray(items) THEN Thrown(NotAFunctionMessage)
    ELSE FilterActive(items.elems)

JsonActive(status, list) ==
    [status |-> status, kind |-> "json", keys |-> {"activeItems"}, activeItems |-> list, text |-> ""]
JsonError(status, message) ==
    [status |-> status, kind |-> "json", keys |-> {"error"}, activeItems |-> <<>>, text |-> message]
\* an exception that leaves a route callback is answered by Express itself:
\* status 500 and an HTML page, not a JSON body
FrameworkError ==
    [status |-> 500, kind |-> "html", keys |-> {}, activeItems |-> <<>>, text |-> ""]
TextOk(text) ==
    [status |-> 200, kind |-> "text", keys |-> {}, activeItems |-> <<>>, text |-> text]
NoResponse ==
    [status |-> 0, kind |-> "none", keys |-> {}, activeItems |-> <<>>, text |-> ""]
NoException == [raised |-> FALSE, message |-> ""]
Raised(m) == [raised |-> TRUE, message |-> m]

\* a plausible slip: the catch block answers 200
HandlerRespondOk(outcome) ==
    IF outcome.thrown THEN JsonError(200, outcome.message)
    ELSE JsonActive(200, outcome.value)

\* handler: try { res.status(200).json({activeItems}) } catch (err) { res.status(500).json({error: err.message}) }
HandlerRespond(outcome) ==
    IF outcome.thrown THEN JsonError(500, outcome.message)
    ELSE JsonActive(200, outcome.value)

\* the Express routes have no try/catch: res.json({activeItems}) or the exception escapes
RouteRespond(outcome) ==
    IF outcome.thrown THEN FrameworkError
    ELSE JsonActive(200, outcome.value)

\* POST /challenge: const { items } = req.body; if (!Array.isArray(items)) return 400; items.filter(...)
ChallengeOutcome(body) ==
    IF body.type = "undefined" THEN [rejected |-> FALSE, outcome |-> Thrown(DestructureMessage)]
    ELSE IF ~IsArray(body.items) THEN [rejected |-> TRUE, outcome |-> Returned(<<>>)]
    ELSE [rejected |-> FALSE, outcome |-> FilterActive(body.items.elems)]

NoRequest == [route |-> "none", body |-> UndefinedBody]

ExceptionOf(outcome) == IF outcome.thrown THEN Raised(outcome.message) ELSE NoException

(***************************************************************************)
(* The HTTP operations                                                     *)
(***************************************************************************)
\* export default function handler(req, res)
Handler ==
    /\ request = NoRequest
    /\ \E body \in Bodies :
        LET outcome == FilterItemsOrEmpty(DestructureItemsOrEmpty(body))
        IN  /\ request' = [route |-> "handler", body |-> body]
            /\ exception' = ExceptionOf(outcome)
            /\ response' = HandlerRespond(outcome)
            /\ UNCHANGED pageVars

\* app.post("/filter", ...)
PostFilter ==
    /\ request = NoRequest
    /\ \E body \in Bodies :
        LET outcome == FilterItemsOrEmpty(DestructureItemsOrEmpty(body))
        IN  /\ request' = [route |-> "/filter", body |-> body]
            /\ exception' = ExceptionOf(outcome)
            /\ response' = RouteRespond(outcome)
            /\ UNCHANGED pageVars

\* app.post("/challenge", ...)
PostChallenge ==
    /\ request = NoRequest
    /\ \E body \in Bodies :
        LET c == ChallengeOutcome(body)
        IN  /\ request' = [route |-> "/challenge", body |-> body]
            /\ exception' = ExceptionOf(c.outcome)
            /\ response' = IF c.rejected THEN JsonError(400, NotAnArrayMessage)
                           ELSE RouteRespond(c.outcome)
            /\ UNCHANGED pageVars

\* app.get("/", ...)
GetRoot ==
    /\ request = NoRequest
    /\ request' = [route |-> "/", body |-> UndefinedBody]
    /\ exception' = NoException
    /\ response' = TextOk(HealthText)
    /\ UNCHANGED pageVars

\* the response has been sent and the callback has returned: Node runs each
\* callback to completion, so the next request is taken up only after this one
Finish ==
    /\ request # NoRequest
    /\ request' = NoRequest
    /\ exception' = NoException
    /\ response' = NoResponse
    /\ UNCHANGED pageVars

(***************************************************************************)
(* Dates.  A Date is a day number counted from 1 January of EpochYear; a   *)
(* date string ("2025-05-20") is its calendar fields.  new Date(y, m, d)   *)
(* normalises a month outside 1..12 and a day past the end of the month    *)
(* the way JavaScript does.                                                *)
(***************************************************************************)
EpochYear == 2020
NoDate == -1          \* an unset Date state (undefined)

IsLeap(y) == (y % 4 = 0 /\ y % 100 # 0) \/ y % 400 = 0
DaysInYear(y) == IF IsLeap(y) THEN 366 ELSE 365
DaysInMonth(y, m) ==
    IF m = 2 THEN (IF IsLeap(y) THEN 29 ELSE 28)
    ELSE IF m \in {4, 6, 9, 11} THEN 30 ELSE 31

\* days from the epoch to 1 January of year y (leap days counted since year 1)
LeapDaysBefore(y) == ((y - 1) \div 4) - ((y - 1) \div 100) + ((y - 1) \div 400)
DaysBeforeYear(y) == 365 * (y - EpochYear) + LeapDaysBefore(y) - LeapDaysBefore(EpochYear)

\* days from 1 January to the first of month m
CumulativeDays == <<0, 31, 59, 90, 120, 151, 181, 212, 243, 273, 304, 334>>
DaysBeforeMonth(y, m) == CumulativeDays[m] + (IF m > 2 /\ IsLeap(y) THEN 1 ELSE 0)

\* new Date(year, month, day), months counted from 1
NewDate(y, m, d) ==
    LET yy == y + ((m - 1) \div 12)
        mm == ((m - 1) % 12) + 1
    IN  DaysBeforeYear(yy) + DaysBeforeMonth(yy, mm) + (d - 1)

RECURSIVE YearOfDay(_, _)
YearOfDay(n, y) == IF n < DaysInYear(y) THEN <<y, n>> ELSE YearOfDay(n - DaysInYear(y), y + 1)

RECURSIVE MonthOfDay(_, _, _)
MonthOfDay(n, y, m) ==
    IF n < DaysInMonth(y, m) THEN <<m, n>> ELSE MonthOfDay(n - DaysInMonth(y, m), y, m + 1)

\* getFullYear / getMonth / getDate of a Date, also the fields of its date string
DateFields(n) ==
    LET yd == YearOfDay(n, EpochYear)
        md == MonthOfDay(yd[2], yd[1], 1)
    IN  [y |-> yd[1], m |-> md[1], d |-> md[2] + 1]

\* new Date(inv.createdAt)
ParseDate(str) == NewDate(str.y, str.m, str.d)

(***************************************************************************)
(* Invoices                                                                *)
(***************************************************************************)
InvoiceStatus == {"Paid", "Unpaid", "Partially Paid", "Overdue", "Disputed", "Awaited", "Draft"}
Periods == {"1Month", "3Months", "1Year", "Custom"}

DateString(y, m, d) == [y |-> y, m |-> m, d |-> d]

Invoice(id, clientName, amount, dueDate, status, createdAt) ==
    [id |-> id, clientName |-> clientName, amount |-> amount, dueDate |-> dueDate,
     status |-> status, createdAt |-> createdAt, synthetic |-> FALSE]

\* the seed collections the page may start from
mockInvoices ==
    { <<>>,
      << Invoice(1, "Acme", 2000, DateString(2025, 6, 20), "Paid", DateString(2025, 5, 20)),
         Invoice(2, "Globex", 1000, DateString(2025, 5, 10), "Unpaid", DateString(2025, 4, 10)) >>,
      << Invoice(1, "Initech", 500, DateString(2025, 8, 1), "Overdue", DateString(2025, 7, 1)),
         Invoice(2, "Umbrella", 700, DateString(2024, 10, 15), "Awaited", DateString(2024, 9, 15)) >> }

NowDays == {NewDate(2025, 5, 31)}
CustomDays == {NewDate(2025, 5, 1), NewDate(2025, 5, 25)}

\* what the create dialog's fields may hold
ClientNameInputs == {"", "Hooli"}
AmountInputs == {"", "1500"}
DueDateInputs == {"", "2025-06-30"}
CreateStatusInputs == {"Draft", "Partially Paid"}
\* what the status menu of an invoice and the status filter may be set to
NewStatusInputs == {"Paid", "Unpaid", "Disputed"}
StatusFilterInputs == {"All", "Unpaid", "Draft"}

\* parse the amount field
ParseAmount(str) == IF str = "1500" THEN 1500 ELSE 0
\* parse the due date field
ParseDueDate(str) == DateString(2025, 6, 30)

(***************************************************************************)
(* filteredInvoices                                                        *)
(***************************************************************************)
\* a plausible slip: the status filter is not applied
StatusFilteredIgnored(list) == list

\* if (statusFilter !== "All") filtered = filtered.filter((i) => i.status === statusFilter)
StatusFiltered(list) ==
    IF statusFilter # "All" THEN SelectSeq(list, LAMBDA i : i.status = statusFilter) ELSE list

\* startDate of the fixed periods: now minus 1 month, 3 months, 1 year
StartDate ==
    LET f == DateFields(now)
    IN  CASE selectedPeriod = "1Month" -> NewDate(f.y, f.m - 1, f.d)
          [] selectedPeriod = "3Months" -> NewDate(f.y, f.m - 3, f.d)
          [] selectedPeriod = "1Year" -> NewDate(f.y - 1, f.m, f.d)
          [] OTHER -> NewDate(f.y, f.m - 3, f.d)

\* a plausible slip: the upper end of the window is not tested
InWindowNoUpper(list, startDate, endDate) ==
    SelectSeq(list, LAMBDA inv : ParseDate(inv.createdAt) >= startDate)

\* filtered.filter((inv) => new Date(inv.createdAt) >= startDate && new Date(inv.createdAt) <= endDate)
InWindow(list, startDate, endDate) ==
    SelectSeq(list, LAMBDA inv : ParseDate(inv.createdAt) >= startDate
                                 /\ ParseDate(inv.createdAt) <= endDate)

\* customStartDate && customEndDate
HasCustomRange == customStartDate # NoDate /\ customEndDate # NoDate

\* a plausible slip: the fallback of the Custom period does not test the bounds
CustomFallbackUnguarded(filtered) == Len(filtered) = 0

\* filtered.length === 0 && customStartDate && customEndDate
CustomFallback(filtered) == Len(filtered) = 0 /\ HasCustomRange

\* the placeholder invoices of an empty window: one a week for a window of up
\* to a month, one a month for a longer one, spread from its start to its end
WeeklyLimit == 31
SynthStep(startDate, endDate) == IF endDate - startDate <= WeeklyLimit THEN 7 ELSE 30
SynthCount(startDate, endDate) ==
    IF endDate < startDate THEN 1
    ELSE ((endDate - startDate) \div SynthStep(startDate, endDate)) + 1
SynthAmount(k) == 1000 + 500 * (k % 3)
SynthStatus(k) == IF k % 2 = 0 THEN "Paid" ELSE "Partially Paid"
Synth(startDate, endDate) ==
    LET step == SynthStep(startDate, endDate)
    IN  [k \in 1..SynthCount(startDate, endDate) |->
            LET created == DateFields(startDate + (k - 1) * step)
            IN  [id |-> k, clientName |-> "Sample", amount |-> SynthAmount(k),
                 dueDate |-> created, status |-> SynthStatus(k),
                 createdAt |-> created, synthetic |-> TRUE]]

\* the body of the filteredInvoices memo, over the collection it reads
FilterInvoices(list) ==
    LET filtered == StatusFiltered(list)
    IN  IF selectedPeriod = "Custom"
        THEN LET ranged == IF HasCustomRange
                           THEN InWindow(filtered, customStartDate, customEndDate)
                           ELSE filtered
             IN  IF CustomFallback(ranged)
                 THEN Synth(customStartDate, customEndDate)
                 ELSE ranged
        ELSE LET periodFiltered == InWindow(filtered, StartDate, now)
             IN  IF Len(periodFiltered) = 0
                 THEN Synth(StartDate, now)
                 ELSE periodFiltered

\* const filteredInvoices = useMemo(..., [invoices, statusFilter, selectedPeriod, ...])
filteredInvoices == FilterInvoices(invoices)

(***************************************************************************)
(* kpiData                                                                 *)
(***************************************************************************)
\* a plausible slip: only fully paid invoices count as earnings
PaidOnly(i) == i.status = "Paid"

\* paidish: Paid or Partially Paid
paidish(i) == i.status = "Paid" \/ i.status = "Partially Paid"

\* a plausible slip: unpaid invoices are not counted as awaited
AwaitedOnly(i) == i.status = "Awaited"

\* i.status === "Awaited" || i.status === "Unpaid"
awaited(i) == i.status = "Awaited" \/ i.status = "Unpaid"

\* i.status === "Overdue"
overdue(i) == i.status = "Overdue"

\* list.reduce(sum, 0): the amounts added up from the left
RECURSIVE ReduceSum(_)
ReduceSum(list) == IF list = <<>> THEN 0 ELSE Head(list).amount + ReduceSum(Tail(list))

\* the body of the kpiData memo, over the filtered invoices it reads
KpiOf(filtered) ==
    [totalEarnings |-> ReduceSum(SelectSeq(filtered, paidish)),
     paymentAwaited |-> ReduceSum(SelectSeq(filtered, awaited)),
     paymentOverdue |-> ReduceSum(SelectSeq(filtered, overdue))]

\* const kpiData = useMemo(..., [filteredInvoices])
kpiData == KpiOf(filteredInvoices)

(***************************************************************************)
(* chartData.  A quotient is kept as numerator and denominator, so that    *)
(* income / 1000 and the growth percentage lose nothing.                   *)
(***************************************************************************)
DisplayDivisor == 1000

Ratio(n, d) == [num |-> n, den |-> d]
RatEq(a, b) == a.num * b.den = b.num * a.den

\* the window the chart covers
ChartStart ==
    IF selectedPeriod = "Custom" /\ HasCustomRange THEN customStartDate ELSE StartDate
ChartEnd ==
    IF selectedPeriod = "Custom" /\ HasCustomRange THEN customEndDate ELSE now

\* week buckets for 1Month and for a short custom range, month buckets otherwise
WeeklyBuckets ==
    \/ selectedPeriod = "1Month"
    \/ selectedPeriod = "Custom" /\ HasCustomRange /\ customEndDate - customStartDate <= WeeklyLimit

MonthIndex(day) == LET f == DateFields(day) IN f.y * 12 + (f.m - 1)

\* getMonthsForPeriod(): the buckets in chronological order, each with the
\* first and the last day it covers
getMonthsForPeriod ==
    IF WeeklyBuckets
    THEN LET n == IF ChartEnd < ChartStart THEN 1 ELSE ((ChartEnd - ChartStart) \div 7) + 1
         IN  [k \in 1..n |->
                [label |-> DateFields(ChartStart + 7 * (k - 1)),
                 first |-> ChartStart + 7 * (k - 1),
                 last |-> ChartStart + 7 * k - 1]]
    ELSE LET m0 == MonthIndex(ChartStart)
             n == IF ChartEnd < ChartStart THEN 1 ELSE MonthIndex(ChartEnd) - m0 + 1
         IN  [k \in 1..n |->
                LET mi == m0 + (k - 1)
                IN  [label |-> DateString(mi \div 12, (mi % 12) + 1, 1),
                     first |-> NewDate(mi \div 12, (mi % 12) + 1, 1),
                     last |-> NewDate(mi \div 12, (mi % 12) + 2, 1) - 1]]

InBucket(inv, bucket) ==
    LET created == ParseDate(inv.createdAt)
    IN  created >= bucket.first /\ created <= bucket.last

\* incomes: for each bucket the Paid and Partially Paid amounts created in it
incomes ==
    LET months == getMonthsForPeriod
        filtered == filteredInvoices
    IN  [k \in DOMAIN months |->
            LET bucket == months[k]
            IN  ReduceSum(SelectSeq(filtered, LAMBDA inv : paidish(inv) /\ InBucket(inv, bucket)))]

\* computeGrowth(incomes, idx): change against the previous bucket in percent
computeGrowth(list, idx) ==
    IF idx = 1 THEN Ratio(0, 1)
    ELSE LET previous == list[idx - 1]
         IN  IF previous = 0 THEN Ratio(0, 1)
             ELSE Ratio((list[idx] - previous) * 100, previous)

\* a plausible slip: growth is computed on the incomes in whole thousands
chartDataWholeThousands ==
    LET months == getMonthsForPeriod
        raw == incomes
    IN  [idx \in DOMAIN months |->
            [month |-> months[idx].label,
             income |-> Ratio(raw[idx], DisplayDivisor),
             growth |-> computeGrowth([k \in DOMAIN raw |-> raw[k] \div DisplayDivisor], idx)]]

\* const chartData = useMemo(...)
chartData ==
    LET months == getMonthsForPeriod
        raw == incomes
    IN  [idx \in DOMAIN months |->
            [month |-> months[idx].label,
             income |-> Ratio(raw[idx], DisplayDivisor),
             growth |-> computeGrowth(raw, idx)]]

(***************************************************************************)
(* The page's operations                                                   *)
(***************************************************************************)
\* handleCreateInvoice: a filled-in form becomes an invoice at the head of the list
handleCreateInvoice ==
    \E clientName \in ClientNameInputs, amount \in AmountInputs,
       dueDate \in DueDateInputs, status \in CreateStatusInputs :
        /\ Len(invoices) < MaxInvoices
        /\ IF clientName # "" /\ amount # "" /\ dueDate # ""
           THEN /\ invoices' = <<Invoice(nextId, clientName, ParseAmount(amount),
                                         ParseDueDate(dueDate), status, DateFields(now))>>
                               \o invoices
                /\ nextId' = nextId + 1
           ELSE UNCHANGED <<invoices, nextId>>
        /\ UNCHANGED <<selectedPeriod, customStartDate, customEndDate, statusFilter, now>>
        /\ UNCHANGED apiVars

\* a plausible slip: the id is not compared, every invoice takes the new status
MapStatusAll(prev, invoiceId, newStatus) ==
    [k \in DOMAIN prev |-> [prev[k] EXCEPT !.status = newStatus]]

\* prev.map(inv => inv.id === invoiceId ? { ...inv, status: newStatus } : inv)
MapStatus(prev, invoiceId, newStatus) ==
    [k \in DOMAIN prev |->
        IF prev[k].id = invoiceId THEN [prev[k] EXCEPT !.status = newStatus] ELSE prev[k]]

\* ids the status menu may be asked about: those on the page and one that is not
UpdateIds == 1..(MaxInvoices + 1)

\* updateInvoiceStatus(invoiceId, newStatus)
updateInvoiceStatus(invoiceId, newStatus) ==
    /\ invoices' = MapStatus(invoices, invoiceId, newStatus)
    /\ UNCHANGED <<selectedPeriod, customStartDate, customEndDate, statusFilter, now, nextId>>
    /\ UNCHANGED apiVars

UpdateInvoiceStatus ==
    \E invoiceId \in UpdateIds, newStatus \in NewStatusInputs :
        updateInvoiceStatus(invoiceId, newStatus)

\* setSelectedPeriod
SetSelectedPeriod ==
    \E p \in Periods :
        /\ selectedPeriod' = p
        /\ UNCHANGED <<invoices, customStartDate, customEndDate, statusFilter, now, nextId>>
        /\ UNCHANGED apiVars

\* setCustomStartDate
SetCustomStartDate ==
    \E d \in CustomDays \cup {NoDate} :
        /\ customStartDate' = d
        /\ UNCHANGED <<invoices, selectedPeriod, customEndDate, statusFilter, now, nextId>>
        /\ UNCHANGED apiVars

\* setCustomEndDate
SetCustomEndDate ==
    \E d \in CustomDays \cup {NoDate} :
        /\ customEndDate' = d
        /\ UNCHANGED <<invoices, selectedPeriod, customStartDate, statusFilter, now, nextId>>
        /\ UNCHANGED apiVars

\* setStatusFilter
SetStatusFilter ==
    \E f \in StatusFilterInputs :
        /\ statusFilter' = f
        /\ UNCHANGED <<invoices, selectedPeriod, customStartDate, customEndDate, now, nextId>>
        /\ UNCHANGED apiVars

Init ==
    /\ request = NoRequest
    /\ exception = NoException
    /\ response = NoResponse
    /\ invoices \in mockInvoices
    /\ selectedPeriod = "3Months"
    /\ customStartDate = NoDate
    /\ customEndDate = NoDate
    /\ statusFilter = "All"
    /\ now \in NowDays
    /\ nextId = Len(invoices) + 1

Next ==
    \/ handleCreateInvoice
    \/ UpdateInvoiceStatus
    \/ SetSelectedPeriod
    \/ SetCustomStartDate
    \/ SetCustomEndDate
    \/ SetStatusFilter

Spec == Init /\ [][Next]_vars


InitApi ==
    /\ request = NoRequest
    /\ exception = NoException
    /\ response = NoResponse
    /\ invoices = <<>>
    /\ selectedPeriod = "3Months"
    /\ customStartDate = NoDate
    /\ customEndDate = NoDate
    /\ statusFilter = "All"
    /\ now = NewDate(2025, 5, 31)
    /\ nextId = 1

NextApi == Handler \/ PostFilter \/ PostChallenge \/ GetRoot \/ Finish

SpecApi == InitApi /\ [][NextApi]_vars

(***************************************************************************)
(* Properties of the HTTP handlers (checked under SpecApi)                 *)
(***************************************************************************)
FilterRoutes == {"handler", "/filter", "/challenge"}
ExpressRoutes == {"/filter", "/challenge"}

\* the items of the request as the claims speak of them: absent without a body
RequestItems == DestructureItemsOrEmpty(request.body)

CarriesObjectArray(body) ==
    /\ body.type = "object"
    /\ body.items.type = "array"
    /\ \A i \in 1..Len(body.items.elems) : body.items.elems[i].type = "object"

ActiveIndexes(elems) == {i \in 1..Len(elems) : elems[i].active = JSTrue}
KthIndex(S, k) == CHOOSE i \in S : Cardinality({j \in S : j <= i}) = k

\* C1: a request whose body carries an array `items` of objects is answered,
\* by each of the three filter handlers, with status 200 and {activeItems}
\* where activeItems is the subsequence of items whose active is true: all of
\* them, nothing else, in the order of the input.
C1_ActiveSubsequence ==
    (request.route \in FilterRoutes /\ CarriesObjectArray(request.body)) =>
        LET elems == request.body.items.elems
            S == ActiveIndexes(elems)
        IN  /\ response.status = 200
            /\ response.kind = "json"
            /\ response.keys = {"activeItems"}
            /\ Len(response.activeItems) = Cardinality(S)
            /\ \A k \in 1..Cardinality(S) : response.activeItems[k] = elems[KthIndex(S, k)]

\* three objects, the first with the string "true", the others with true: two are kept, in order
C1_Witness ==
    /\ request.route = "/filter"
    /\ CarriesObjectArray(request.body)
    /\ Len(request.body.items.elems) = 3
    /\ request.body.items.elems[1].active = JSStringTrue
    /\ request.body.items.elems[2] = [type |-> "object", id |-> 2, active |-> JSTrue]
    /\ request.body.items.elems[3] = [type |-> "object", id |-> 1, active |-> JSTrue]
    /\ response.status = 200
    /\ response.activeItems = <<request.body.items.elems[2], request.body.items.elems[3]>>

\* C2 as stated: whenever processing a request throws, the handler (each of
\* handler, POST /filter, POST /challenge) answers 500 with {error: message}
\* carrying the exception's message, and never 200.
C2_Original ==
    (request.route \in FilterRoutes /\ exception.raised) =>
        /\ response = JsonError(500, exception.message)
        /\ response.status # 200

\* C2 amended: an exception thrown inside the serverless handler is answered
\* with 500 and {error: message}; an exception thrown inside POST /filter or
\* POST /challenge is not caught by the route, the answer is the framework's
\* 500 without an {error} body; no request ends with 200 after an exception.
C2_Amended ==
    (request.route \in FilterRoutes /\ exception.raised) =>
        /\ response.status = 500
        /\ request.route = "handler" =>
              /\ response.kind = "json"
              /\ response.keys = {"error"}
              /\ response.text = exception.message
        /\ request.route \in ExpressRoutes =>
              /\ response.kind # "json"
              /\ "error" \notin response.keys

\* the serverless handler met a null element and answered 500 with the message
C2_Witness ==
    /\ request.route = "handler"
    /\ request.body.items.type = "array"
    /\ \E i \in 1..Len(request.body.items.elems) : request.body.items.elems[i].type = "null"
    /\ exception = Raised(NullActiveMessage)
    /\ response = JsonError(500, NullActiveMessage)

\* C3 as stated: POST /challenge answers 400 {error: "items must be an array"}
\* for every request whose items is not an array, never with activeItems then,
\* and answers 200 with the filtered list only when items is an array.
C3_Original ==
    request.route = "/challenge" =>
        /\ ~IsArray(RequestItems) =>
              /\ response = JsonError(400, NotAnArrayMessage)
              /\ "activeItems" \notin response.keys
        /\ response.status = 200 => IsArray(RequestItems)

(***************************************************************************)
(* Properties of the dashboard page (checked under Spec)                   *)
(***************************************************************************)
Indexes(list) == 1..Len(list)
Range(list) == {list[i] : i \in Indexes(list)}

RECURSIVE SumAt(_, _)
SumAt(list, S) ==
    IF S = {} THEN 0
    ELSE LET i == CHOOSE j \in S : TRUE IN list[i].amount + SumAt(list, S \ {i})

WithStatus(list, statuses) == {i \in Indexes(list) : list[i].status \in statuses}

\* C4: the KPI totals of a filtered sequence are the sums of amount over
\* Paid/Partially Paid, over Awaited/Unpaid and over Overdue; Disputed and
\* Draft count nowhere; the totals are >= 0, and 0 for the empty sequence.
C4_KpiTotals ==
    LET f == filteredInvoices
        kpi == kpiData
    IN  /\ kpi.totalEarnings = SumAt(f, WithStatus(f, {"Paid", "Partially Paid"}))
        /\ kpi.paymentAwaited = SumAt(f, WithStatus(f, {"Awaited", "Unpaid"}))
        /\ kpi.paymentOverdue = SumAt(f, WithStatus(f, {"Overdue"}))
        /\ kpi.totalEarnings + kpi.paymentAwaited + kpi.paymentOverdue
              = SumAt(f, Indexes(f) \ WithStatus(f, {"Disputed", "Draft"}))
        /\ kpi.totalEarnings >= 0
        /\ kpi.paymentAwaited >= 0
        /\ kpi.paymentOverdue >= 0
        /\ f = <<>> => kpi = [totalEarnings |-> 0, paymentAwaited |-> 0, paymentOverdue |-> 0]

\* a Draft or Disputed invoice next to a Partially Paid one: only the latter is earned
C4_Witness ==
    LET f == filteredInvoices
    IN  \E i, j \in Indexes(f) :
            /\ f[i].status \in {"Disputed", "Draft"}
            /\ f[i].amount > 0
            /\ f[j].status = "Partially Paid"
            /\ kpiData.totalEarnings = f[j].amount
            /\ kpiData.paymentAwaited = 0

StatusMatches(inv) == statusFilter = "All" \/ inv.status = statusFilter

WindowResolved == selectedPeriod # "Custom" \/ HasCustomRange
InResolvedWindow(inv) ==
    IF selectedPeriod = "Custom"
    THEN HasCustomRange => (ParseDate(inv.createdAt) >= customStartDate
                            /\ ParseDate(inv.createdAt) <= customEndDate)
    ELSE ParseDate(inv.createdAt) >= StartDate /\ ParseDate(inv.createdAt) <= now
RealResult == {i \in Indexes(invoices) : StatusMatches(invoices[i]) /\ InResolvedWindow(invoices[i])}

C7_WithinWindow ==
    selectedPeriod # "Custom" =>
        LET f == filteredInvoices
        IN  \A k \in Indexes(f) :
            LET inv == f[k]
            IN  /\ StartDate <= ParseDate(inv.createdAt)
                /\ ParseDate(inv.createdAt) <= now
                /\ (statusFilter # "All" /\ ~inv.synthetic) => inv.status = statusFilter

\* a fixed period and a status filter keep one real invoice and leave one out
C7_Witness ==
    /\ selectedPeriod \in {"1Month", "3Months", "1Year"}
    /\ statusFilter # "All"
    /\ Len(invoices) = 2
    /\ Len(filteredInvoices) = 1
    /\ ~filteredInvoices[1].synthetic
    /\ invoices[1].status = invoices[2].status

\* C8: a status update changes nothing but the status of the invoice with
\* that id: length and order stay, every other invoice stays, the matching
\* invoice keeps id, clientName, amount, dueDate and createdAt, an unknown id
\* changes nothing; and no operation removes an invoice.
C8_StatusUpdateFrame ==
    [][ /\ \A invoiceId \in UpdateIds, newStatus \in NewStatusInputs :
              updateInvoiceStatus(invoiceId, newStatus) =>
                  /\ Len(invoices') = Len(invoices)
                  /\ \A k \in Indexes(invoices) :
                        /\ invoices'[k].id = invoices[k].id
                        /\ invoices[k].id # invoiceId => invoices'[k] = invoices[k]
                        /\ invoices[k].id = invoiceId =>
                              invoices'[k] = [id |-> invoices[k].id,
                                              clientName |-> invoices[k].clientName,
                                              amount |-> invoices[k].amount,
                                              dueDate |-> invoices[k].dueDate,
                                              status |-> newStatus,
                                              createdAt |-> invoices[k].createdAt,
                                              synthetic |-> invoices[k].synthetic]
                  /\ (\A k \in Indexes(invoices) : invoices[k].id # invoiceId) =>
                        invoices' = invoices
        /\ Len(invoices') >= Len(invoices)
        /\ \A k \in Indexes(invoices) :
              \E j \in Indexes(invoices') : invoices'[j].id = invoices[k].id
      ]_vars

\* Globex, seeded Unpaid, has become Disputed; Acme beside it is as it was seeded
C8_Witness ==
    /\ Len(invoices) = 2
    /\ invoices[1] = Invoice(1, "Acme", 2000, DateString(2025, 6, 20), "Paid", DateString(2025, 5, 20))
    /\ invoices[2] = Invoice(2, "Globex", 1000, DateString(2025, 5, 10), "Disputed", DateString(2025, 4, 10))

\* C9: marking an Unpaid invoice X of the current window Paid, with
\* statusFilter All and the period unchanged, moves X.amount from
\* paymentAwaited to totalEarnings and leaves paymentOverdue as it was.
C9_UnpaidToPaid ==
    [][ (statusFilter = "All" /\ invoices' # invoices) =>
            LET f == filteredInvoices
                kpi == kpiData
            IN  \A k \in Indexes(f) :
                    ( /\ ~f[k].synthetic
                      /\ f[k].status = "Unpaid"
                      /\ updateInvoiceStatus(f[k].id, "Paid") ) =>
                        KpiOf(FilterInvoices(invoices')) =
                                   [totalEarnings |-> kpi.totalEarnings + f[k].amount,
                                    paymentAwaited |-> kpi.paymentAwaited - f[k].amount,
                                    paymentOverdue |-> kpi.paymentOverdue]
      ]_vars

\* Globex, seeded Unpaid with amount 1000 inside the 3-month window, is now Paid
C9_Witness ==
    /\ statusFilter = "All"
    /\ selectedPeriod = "3Months"
    /\ Len(invoices) = 2
    /\ invoices[2] = Invoice(2, "Globex", 1000, DateString(2025, 5, 10), "Paid", DateString(2025, 4, 10))
    /\ invoices[1].status = "Paid"
    /\ kpiData = [totalEarnings |-> 3000, paymentAwaited |-> 0, paymentOverdue |-> 0]

\* the raw income of a bucket: Paid and Partially Paid amounts created in it
RawIncome(f, bucket) ==
    SumAt(f, {i \in WithStatus(f, {"Paid", "Partially Paid"}) : InBucket(f[i], bucket)})
RawIncomes ==
    LET f == filteredInvoices
        months == getMonthsForPeriod
    IN  [k \in DOMAIN months |-> RawIncome(f, months[k])]

====
